---- MODULE Spec2Model ----
(***************************************************************************)
(* Model of esp32/strava/strava.ino: the startup sequence (setup), the     *)
(* poll loop (loop), one fetch cycle (fetchWeeklyStats, parseActivities)   *)
(* and the renderer (displayWeeklyStats, displayStatus).                   *)
(*                                                                         *)
(* Clock.  Every delay of the sketch (5000, 500, 1000 ms), the refresh     *)
(* interval (900000 ms) and 2^32 are multiples of 4 ms, so the clock is    *)
(* kept in units of MsPerUnit = 4 ms; the 32-bit millis() counter then     *)
(* wraps at 2^32 / 4 = 2^30 units, which the model checker's integers can  *)
(* hold.  uptime is the real time since boot, millis() its 32-bit reading. *)
(***************************************************************************)
EXTENDS Integers, Sequences, FiniteSets, TLC

VARIABLES
    pc,            \* position of the single thread of control
    uptime,        \* real time since boot, in clock units
    wifi,          \* what WiFi.status() == WL_CONNECTED reports when read
    ntpStarted,    \* configTime() has been called
    synced,        \* the system clock has been set by NTP
    bootEpoch,     \* Unix time of the boot instant (known once synced)
    attempts,      \* setup: int attempts
    timeAttempts,  \* setup: int timeAttempts
    currentStats,  \* WeeklyStats currentStats
    lastFetchTime, \* unsigned long lastFetchTime, in clock units
    screen,        \* strings drawn since the last fillScreen
    now,           \* fetchWeeklyStats: time_t now of the last cycle
    weekStart,     \* fetchWeeklyStats: time_t weekStart of the last cycle
    httpCode,      \* fetchWeeklyStats: int httpCode of the last cycle
    body,          \* the payload handed to parseActivities in the last cycle
    cycle,         \* history: how the last fetch cycle was started
    render,        \* history: what the last displayWeeklyStats did
    pass,          \* history: what the last pass of loop() saw and did
    iter           \* number of modelled passes of loop()

vars == <<pc, uptime, wifi, ntpStarted, synced, bootEpoch, attempts,
          timeAttempts, currentStats, lastFetchTime, screen, now, weekStart,
          httpCode, body, cycle, render, pass, iter>>

(***************************************************************************)
(* Program constants                                                       *)
(***************************************************************************)
REFRESH_INTERVAL == 900000
WIFI_ATTEMPTS == 20
TIME_ATTEMPTS == 20
TIME_SET_THRESHOLD == 100000
HTTP_OK == 200
BOOT_DELAY == 5000
WIFI_POLL_DELAY == 500
CONNECTED_DELAY == 1000
TIME_POLL_DELAY == 500
LOOP_DELAY == 1000
SECONDS_PER_DAY == 24 * 3600

MsPerUnit == 4
MillisWrap == 2^30            \* 2^32 ms in clock units
Units(ms) == ms \div MsPerUnit
UnitsPerSecond == Units(1000)

(***************************************************************************)
(* Bounds of the model                                                     *)
(***************************************************************************)
MaxIter == 3                  \* passes of loop() that are modelled

\* the modelled life of the device ends shortly after the first wrap of millis()
MaxUptime == MillisWrap + 4 * Units(REFRESH_INTERVAL)

(***************************************************************************)
(* Clock readings                                                          *)
(***************************************************************************)
\* millis(): the 32-bit millisecond counter
millis(t) == t % MillisWrap

\* time(nullptr): seconds since boot until NTP has set the clock
time(t, isSynced, epoch) ==
    IF isSynced THEN epoch + (t \div UnitsPerSecond) ELSE t \div UnitsPerSecond

\* a variant that subtracts as signed numbers, without the reduction mod 2^32
Elapsed_Signed(t, last) == millis(t) - last

\* millis() - lastFetchTime on unsigned long
Elapsed(t, last) == (millis(t) - last) % MillisWrap

\* a variant that fires one comparison late (> for >=)
Due_Strict(t, last) == Elapsed(t, last) > Units(REFRESH_INTERVAL)

\* the refresh condition of loop(), without the connectivity test
Due(t, last) == Elapsed(t, last) >= Units(REFRESH_INTERVAL)

(***************************************************************************)
(* TimeWindow: the week-boundary arithmetic of fetchWeeklyStats            *)
(***************************************************************************)
\* localtime_r with the zone configTime(0, 0, ...) sets (UTC, no DST);
\* 1970-01-01 was a Thursday (tm_wday 4)
localtime_r(t) ==
    [tm_wday |-> ((t \div SECONDS_PER_DAY) + 4) % 7,
     tm_hour |-> (t % SECONDS_PER_DAY) \div 3600,
     tm_min  |-> (t % 3600) \div 60,
     tm_sec  |-> t % 60]

\* a variant that takes tm_wday for days since Monday, less one
daysSinceMonday_WdayLessOne(timeinfo) == timeinfo.tm_wday - 1

daysSinceMonday(timeinfo) == (timeinfo.tm_wday + 6) % 7

\* a variant that leaves the seconds of the minute in
weekStartOf_KeepsSeconds(t, timeinfo) ==
    t - (daysSinceMonday(timeinfo) * 24 * 3600) - (timeinfo.tm_hour * 3600)
      - (timeinfo.tm_min * 60)

weekStartOf(t, timeinfo) ==
    t - (daysSinceMonday(timeinfo) * 24 * 3600) - (timeinfo.tm_hour * 3600)
      - (timeinfo.tm_min * 60) - timeinfo.tm_sec

(***************************************************************************)
(* ActivityAggregator: parseActivities                                     *)
(***************************************************************************)
\* A payload is what deserializeJson makes of the body: an error code
\* (0 = DeserializationError::Ok) and, when it is 0, the array of objects.
\* An activity is a function from the keys it has to their values.
NoBody == [error |-> 0, doc |-> <<>>]
JSON_INVALID == 3

\* the spacing of single-precision floats around n (24-bit significand)
RECURSIVE Ulp(_)
Ulp(n) == IF n < 2^24 THEN 1 ELSE 2 * Ulp(n \div 2)

\* the float nearest to the integer n >= 0, ties to even
F32(n) ==
    LET u == Ulp(n)
        q == n \div u
        r == n % u
    IN  IF 2 * r > u \/ (2 * r = u /\ q % 2 = 1) THEN (q + 1) * u ELSE q * u

\* activity[key], and what the conversions make of a missing member
Member(activity, key, default) ==
    IF key \in DOMAIN activity THEN activity[key] ELSE default

AsString(activity, key) == Member(activity, key, "")
AsFloat(activity, key) == F32(Member(activity, key, 0))
AsULong(activity, key) ==
    LET v == Member(activity, key, 0) IN IF v < 0 THEN 0 ELSE v

\* a variant that skips a "Run" record lacking a distance or a moving time
AddActivity_SkipsIncomplete(stats, activity) ==
    IF /\ AsString(activity, "type") = "Run"
       /\ {"distance", "moving_time"} \subseteq DOMAIN activity
    THEN [stats EXCEPT
            !.totalDistance = F32(@ + AsFloat(activity, "distance")),
            !.totalTime = @ + AsULong(activity, "moving_time"),
            !.runCount = @ + 1]
    ELSE stats

\* one pass of the for loop over the activities
AddActivity(stats, activity) ==
    IF AsString(activity, "type") = "Run"
    THEN [stats EXCEPT
            !.totalDistance = F32(@ + AsFloat(activity, "distance")),
            !.totalTime = @ + AsULong(activity, "moving_time"),
            !.runCount = @ + 1]
    ELSE stats

RECURSIVE SumActivities(_, _)
SumActivities(stats, doc) ==
    IF doc = <<>> THEN stats
    ELSE SumActivities(AddActivity(stats, Head(doc)), Tail(doc))

\* a variant without the reset
ResetStats_None(stats) == stats

ResetStats(stats) ==
    [stats EXCEPT !.totalDistance = 0, !.totalTime = 0, !.runCount = 0]

\* a variant whose error path forgets to clear valid
parseActivities_KeepsValid(stats, json) ==
    IF json.error # 0
    THEN stats
    ELSE [SumActivities(ResetStats(stats), json.doc) EXCEPT !.valid = TRUE]

parseActivities(stats, json) ==
    IF json.error # 0
    THEN [stats EXCEPT !.valid = FALSE]
    ELSE [SumActivities(ResetStats(stats), json.doc) EXCEPT !.valid = TRUE]

(***************************************************************************)
(* StatsFetchCycle: the state fetchWeeklyStats leaves                      *)
(***************************************************************************)
\* a variant that zeroes the stats at the start of every cycle
fetchStats_ResetFirst(stats, code, json) ==
    IF code = HTTP_OK
    THEN parseActivities(ResetStats(stats), json)
    ELSE [ResetStats(stats) EXCEPT !.valid = FALSE]

\* currentStats after the cycle
fetchStats(stats, code, json) ==
    IF code = HTTP_OK
    THEN parseActivities(stats, json)
    ELSE [stats EXCEPT !.valid = FALSE]

\* a variant that stamps the time whatever the outcome
fetchTime_Always(last, code, json, m) == m

\* lastFetchTime after the cycle; m is millis() when the response is handled
fetchTime(last, code, json, m) ==
    IF code = HTTP_OK THEN m ELSE last

(***************************************************************************)
(* DisplayRenderer                                                         *)
(***************************************************************************)
displayStatus(message) == <<message>>

\* String(distanceKm, 1) of totalDistance / 1000.0
KmString(meters) ==
    LET tenths == (meters + 50) \div 100
    IN  ToString(tenths \div 10) \o "." \o ToString(tenths % 10)

\* a variant whose error branch lacks the return and falls through
displayWeeklyStats_NoReturn(stats, m) ==
    LET numbers == <<"THIS WEEK",
                     KmString(stats.totalDistance) \o " km",
                     ToString(stats.totalTime \div 3600) \o "h "
                        \o ToString((stats.totalTime % 3600) \div 60) \o "m",
                     ToString(stats.runCount) \o " runs",
                     "Updated: " \o ToString(m \div Units(60000)) \o "m ago">>
    IN  [layout |-> "stats",
         texts  |-> IF stats.valid THEN numbers
                    ELSE <<"Error loading", "data">> \o numbers,
         reads  |-> {"valid", "totalDistance", "totalTime", "runCount"}]

\* m is millis() at the time of drawing.  reads: the fields of the stats
\* the function reads.
displayWeeklyStats(stats, m) ==
    IF ~stats.valid
    THEN [layout |-> "error",
          texts  |-> <<"Error loading", "data">>,
          reads  |-> {"valid"}]
    ELSE [layout |-> "stats",
          texts  |-> <<"THIS WEEK",
                       KmString(stats.totalDistance) \o " km",
                       ToString(stats.totalTime \div 3600) \o "h "
                          \o ToString((stats.totalTime % 3600) \div 60) \o "m",
                       ToString(stats.runCount) \o " runs",
                       "Updated: " \o ToString(m \div Units(60000)) \o "m ago">>,
          reads  |-> {"valid", "totalDistance", "totalTime", "runCount"}]

(***************************************************************************)
(* Inputs of the program model                                             *)
(***************************************************************************)
Run5k == [type |-> "Run", distance |-> 5000, moving_time |-> 1500]
Ride20k == [type |-> "Ride", distance |-> 20000, moving_time |-> 3000]
Malformed == [error |-> JSON_INVALID, doc |-> <<>>]

\* what the network collaborator can answer: no response at all (a negative
\* HTTPClient code), a non-success status, or 200 with a body
Responses ==
    {[code |-> -1, json |-> NoBody], [code |-> 404, json |-> NoBody]}
    \cup {[code |-> HTTP_OK, json |-> b] :
            b \in {Malformed,
                   [error |-> 0, doc |-> <<>>],
                   [error |-> 0, doc |-> <<Run5k, Ride20k>>]}}

\* how long http.GET() blocks, in ms
FetchDurations == {200, 3000}

\* Unix time of the boot instant: Sunday 2024-01-07 23:59:50 UTC
BootEpochs == {1704671990}

\* the longest run of idle passes with WiFi up that is taken in one step
PassesPerInterval == Units(REFRESH_INTERVAL) \div Units(LOOP_DELAY)

\* the passes of an outage of WiFi that ends half an interval before
\* millis() wraps (about 49.7 days after boot)
LongOutage ==
    (MillisWrap - Units(REFRESH_INTERVAL) \div 2) \div Units(LOOP_DELAY)

\* numbers of consecutive idle passes of loop() taken in one step
IdleSkips == {1, LongOutage}

(***************************************************************************)
(* State after construction                                                *)
(***************************************************************************)
Constructed ==
    /\ uptime = 0
    /\ wifi = FALSE
    /\ ntpStarted = FALSE
    /\ synced = FALSE
    /\ bootEpoch \in BootEpochs
    /\ attempts = 0
    /\ timeAttempts = 0
    /\ lastFetchTime = 0
    /\ screen = <<>>
    /\ weekStart = 0
    /\ httpCode = 0
    /\ cycle = [n |-> 0, by |-> "none", at |-> 0, elapsed |-> 0,
                wifi |-> FALSE, synced |-> FALSE,
                stats |-> [totalDistance |-> 0, totalTime |-> 0,
                           runCount |-> 0, valid |-> FALSE],
                last |-> 0, done |-> 0, iter |-> 0, stampAt |-> 0,
                prevBy |-> "none", prevAt |-> 0, prevCode |-> 0]
    /\ render = [n |-> 0, layout |-> "none", reads |-> {}, cycle |-> 0]
    /\ pass = [wifi |-> FALSE, elapsed |-> 0, fetched |-> FALSE, real |-> 0]
    /\ iter = 0

Init ==
    /\ pc = "boot"
    /\ currentStats = [totalDistance |-> 0, totalTime |-> 0, runCount |-> 0,
                       valid |-> FALSE]
    /\ now = 0
    /\ body = NoBody
    /\ Constructed

\* the NTP client, once started, may set the clock at any time
SyncNext == IF ntpStarted THEN {synced, TRUE} ELSE {synced}

(***************************************************************************)
(* fetchWeeklyStats() followed by displayWeeklyStats(), as setup() and     *)
(* loop() call them.  d: the time the request takes; resp: its outcome.    *)
(***************************************************************************)
fetchWeeklyStats(by, d, resp) ==
    LET t == time(uptime, synced, bootEpoch)
    IN  /\ now' = t
        /\ weekStart' = weekStartOf(t, localtime_r(t))
        /\ httpCode' = resp.code
        /\ body' = resp.json
        /\ currentStats' = fetchStats(currentStats, resp.code, resp.json)
        /\ lastFetchTime' = fetchTime(lastFetchTime, resp.code, resp.json,
                                      millis(uptime + Units(d)))
        /\ cycle' = [n |-> cycle.n + 1, by |-> by, at |-> uptime,
                     elapsed |-> Elapsed(uptime, lastFetchTime),
                     wifi |-> wifi, synced |-> synced,
                     stats |-> currentStats, last |-> lastFetchTime,
                     done |-> millis(uptime + Units(d)),
                     iter |-> IF by = "loop" THEN iter + 1 ELSE iter,
                     stampAt |-> fetchTime(cycle.stampAt, resp.code,
                                           resp.json, uptime + Units(d)),
                     prevBy |-> cycle.by, prevAt |-> cycle.at,
                     prevCode |-> httpCode]

\* a variant that fetches without rendering
FetchAndDisplay_NoRender(by, d, resp) ==
    /\ fetchWeeklyStats(by, d, resp)
    /\ UNCHANGED <<screen, render>>

\* The codes fetchWeeklyStats and parseActivities draw (lines 126, 147) are
\* wiped by the fillScreen that opens displayWeeklyStats.
FetchAndDisplay(by, d, resp) ==
    /\ fetchWeeklyStats(by, d, resp)
    /\ LET r == displayWeeklyStats(currentStats', millis(uptime + Units(d)))
       IN  /\ screen' = r.texts
           /\ render' = [n |-> render.n + 1, layout |-> r.layout,
                         reads |-> r.reads, cycle |-> cycle.n + 1]

(***************************************************************************)
(* setup(), one action per stretch between two waits                       *)
(***************************************************************************)
\* lines 31-44: display init, "Connecting to WiFi...", delay(5000), WiFi.begin
setup_begin ==
    /\ pc = "boot"
    /\ pc' = "wifi_wait"
    /\ screen' = displayStatus("Connecting to WiFi...")
    /\ uptime' = uptime + Units(BOOT_DELAY)
    /\ attempts' = 0
    /\ wifi' \in BOOLEAN
    /\ UNCHANGED <<ntpStarted, synced, bootEpoch, timeAttempts, currentStats,
                   lastFetchTime, now, weekStart, httpCode, body, cycle,
                   render, pass, iter>>

\* a variant of the connection wait without the limit on the attempts
setup_wifiWait_Unbounded ==
    /\ pc = "wifi_wait"
    /\ ~wifi
    /\ uptime' = uptime + Units(WIFI_POLL_DELAY)
    /\ attempts' = attempts + 1
    /\ wifi' \in BOOLEAN
    /\ UNCHANGED <<pc, ntpStarted, synced, bootEpoch, timeAttempts,
                   currentStats, lastFetchTime, screen, now, weekStart,
                   httpCode, body, cycle, render, pass, iter>>

\* lines 45-49: one pass of the connection wait
setup_wifiWait ==
    /\ pc = "wifi_wait"
    /\ ~wifi /\ attempts < WIFI_ATTEMPTS
    /\ uptime' = uptime + Units(WIFI_POLL_DELAY)
    /\ attempts' = attempts + 1
    /\ wifi' \in BOOLEAN
    /\ UNCHANGED <<pc, ntpStarted, synced, bootEpoch, timeAttempts,
                   currentStats, lastFetchTime, screen, now, weekStart,
                   httpCode, body, cycle, render, pass, iter>>

\* lines 51-63: connected; "WiFi Connected!", delay(1000), configTime
setup_connected ==
    /\ pc = "wifi_wait"
    /\ ~(~wifi /\ attempts < WIFI_ATTEMPTS)
    /\ wifi
    /\ pc' = "time_wait"
    /\ screen' = displayStatus("Syncing time...")
    /\ uptime' = uptime + Units(CONNECTED_DELAY)
    /\ ntpStarted' = TRUE
    /\ timeAttempts' = 0
    /\ UNCHANGED <<wifi, synced, bootEpoch, attempts, currentStats,
                   lastFetchTime, now, weekStart, httpCode, body, cycle,
                   render, pass, iter>>

\* lines 78-81: not connected after the wait; "WiFi Failed!"
setup_wifiFailed ==
    /\ pc = "wifi_wait"
    /\ ~(~wifi /\ attempts < WIFI_ATTEMPTS)
    /\ ~wifi
    /\ pc' = "loop"
    /\ screen' = displayStatus("WiFi Failed!")
    /\ attempts' = 0
    /\ UNCHANGED <<uptime, wifi, ntpStarted, synced, bootEpoch, timeAttempts,
                   currentStats, lastFetchTime, now, weekStart, httpCode,
                   body, cycle, render, pass, iter>>

\* lines 64-68: one pass of the wait for the time to be set
setup_timeWait ==
    /\ pc = "time_wait"
    /\ time(uptime, synced, bootEpoch) < TIME_SET_THRESHOLD
    /\ timeAttempts < TIME_ATTEMPTS
    /\ uptime' = uptime + Units(TIME_POLL_DELAY)
    /\ timeAttempts' = timeAttempts + 1
    /\ synced' \in SyncNext
    /\ UNCHANGED <<pc, wifi, ntpStarted, bootEpoch, attempts, currentStats,
                   lastFetchTime, screen, now, weekStart, httpCode, body,
                   cycle, render, pass, iter>>

\* lines 69-77: the wait is over; the initial fetch and render
setup_fetch(d, resp) ==
    /\ pc = "time_wait"
    /\ ~(/\ time(uptime, synced, bootEpoch) < TIME_SET_THRESHOLD
         /\ timeAttempts < TIME_ATTEMPTS)
    /\ pc' = "loop"
    /\ FetchAndDisplay("setup", d, resp)
    /\ uptime' = uptime + Units(d)
    /\ attempts' = 0
    /\ timeAttempts' = 0
    /\ wifi' \in BOOLEAN
    /\ UNCHANGED <<ntpStarted, synced, bootEpoch, pass, iter>>

(***************************************************************************)
(* loop()                                                                  *)
(***************************************************************************)
\* a variant without the connectivity test
RefreshCondition_NoWifi(connected, t, last) == Due(t, last)

\* the condition of the if statement
RefreshCondition(connected, t, last) == connected /\ Due(t, last)

\* a pass that refreshes: fetch, render, delay(1000)
loop_refresh(d, resp) ==
    /\ pc = "loop"
    /\ iter < MaxIter
    /\ RefreshCondition(wifi, uptime, lastFetchTime)
    /\ FetchAndDisplay("loop", d, resp)
    /\ pass' = [wifi |-> wifi, elapsed |-> Elapsed(uptime, lastFetchTime),
                fetched |-> TRUE, real |-> uptime - cycle.stampAt]
    /\ uptime' = uptime + Units(d) + Units(LOOP_DELAY)
    /\ iter' = iter + 1
    /\ wifi' \in BOOLEAN
    /\ UNCHANGED <<pc, ntpStarted, synced, bootEpoch, attempts, timeAttempts>>

\* the passes left until the interval has elapsed
PassesUntilDue(t, last) ==
    (Units(REFRESH_INTERVAL) - Elapsed(t, last) + Units(LOOP_DELAY) - 1)
        \div Units(LOOP_DELAY)

\* k consecutive passes in which the condition is false and only delay(1000)
\* runs; connectivity and the clock's source change only after the last one
loop_idle(k) ==
    /\ pc = "loop"
    /\ iter < MaxIter
    /\ k >= 1
    /\ k * Units(LOOP_DELAY) <= MaxUptime - uptime
    /\ wifi => k <= PassesPerInterval + 1
    /\ IF wifi
       THEN {j \in 0 .. (k - 1) :
               RefreshCondition(wifi, uptime + j * Units(LOOP_DELAY),
                                lastFetchTime)} = {}
       ELSE TRUE
    /\ pass' = [wifi |-> wifi,
                elapsed |-> Elapsed(uptime + (k - 1) * Units(LOOP_DELAY),
                                    lastFetchTime),
                fetched |-> FALSE,
                real |-> uptime + (k - 1) * Units(LOOP_DELAY) - cycle.stampAt]
    /\ uptime' = uptime + k * Units(LOOP_DELAY)
    /\ iter' = iter + 1
    /\ synced' \in SyncNext
    /\ wifi' \in BOOLEAN
    /\ UNCHANGED <<pc, ntpStarted, bootEpoch, attempts, timeAttempts,
                   currentStats, lastFetchTime, screen, now, weekStart,
                   httpCode, body, cycle, render>>

Next ==
    \/ setup_begin
    \/ setup_wifiWait
    \/ setup_connected
    \/ setup_wifiFailed
    \/ setup_timeWait
    \/ \E d \in FetchDurations, resp \in Responses : setup_fetch(d, resp)
    \/ \E d \in FetchDurations, resp \in Responses : loop_refresh(d, resp)
    \/ \E k \in IdleSkips \cup {PassesUntilDue(uptime, lastFetchTime)} :
          loop_idle(k)

Spec == Init /\ [][Next]_vars

(***************************************************************************)
(* Properties of the program model (Spec)                                  *)
(***************************************************************************)
Interval == Units(REFRESH_INTERVAL)
Parsed == httpCode = HTTP_OK /\ body.error = 0
ZeroValid == [totalDistance |-> 0, totalTime |-> 0, runCount |-> 0,
              valid |-> TRUE]

C2_FailureKeepsLastFetchTime ==
    (cycle.n > 0 /\ httpCode # HTTP_OK) =>
        /\ ~currentStats.valid
        /\ lastFetchTime = cycle.last

C2_Witness ==
    /\ cycle.n > 0 /\ httpCode = -1
    /\ cycle.stats.valid /\ cycle.last > 0 /\ lastFetchTime = cycle.last

\* C3 as stated: a cycle changes lastFetchTime if and only if the status was
\* 200 and the body parsed, and then sets it to the clock reading; a 200
\* with a malformed body leaves it unchanged.
C3_LastFetchTimeOnlyOnParse ==
    cycle.n > 0 =>
        IF Parsed THEN lastFetchTime = cycle.done
                  ELSE lastFetchTime = cycle.last

\* C4: a cycle that receives 200 with a body the parser rejects ends with
\* valid = false, whatever valid was before.
C4_ParseFailureInvalid ==
    (cycle.n > 0 /\ httpCode = HTTP_OK /\ body.error # 0)
        => ~currentStats.valid

C4_Witness ==
    /\ cycle.n > 0 /\ httpCode = HTTP_OK /\ body.error # 0
    /\ cycle.stats.valid /\ ~currentStats.valid

\* C5 as stated: the pass of loop() that follows a failed cycle (the startup
\* cycle included) fetches again if connectivity is reported.
C5_RetryOnNextTick ==
    (cycle.n > 0 /\ ~currentStats.valid /\ iter = cycle.iter + 1 /\ pass.wifi)
        => pass.fetched

\* C6: the renderer draws the error layout exactly when valid is false, and
\* then draws the two-line message only and reads none of the numbers.
C6_LayoutFollowsValid ==
    render.n > 0 =>
        /\ render.layout = (IF currentStats.valid THEN "stats" ELSE "error")
        /\ ~currentStats.valid =>
              /\ screen = <<"Error loading", "data">>
              /\ render.reads \cap {"totalDistance", "totalTime", "runCount"}
                    = {}

C6_Witness ==
    /\ render.n > 0 /\ ~currentStats.valid /\ currentStats.runCount > 0
    /\ render.layout = "error"

\* C7 as stated: after a cycle that fails the three totals are 0.
C7_FailureLeavesZero ==
    (cycle.n > 0 /\ ~Parsed) =>
        /\ currentStats.totalDistance = 0
        /\ currentStats.totalTime = 0
        /\ currentStats.runCount = 0

\* C7 amended: a cycle that fails changes nothing of the stats but valid, so
\* the totals are those the earlier cycles left; only a cycle whose body
\* parsed starts from zero.
C7_FailureKeepsTotals ==
    cycle.n > 0 =>
        IF Parsed
        THEN currentStats = SumActivities(ZeroValid, body.doc)
        ELSE currentStats = [cycle.stats EXCEPT !.valid = FALSE]

C7_Witness ==
    /\ cycle.n > 0 /\ ~Parsed /\ currentStats.runCount > 0
    /\ cycle.stats.valid

\* C9: a successful fetch of an empty sequence leaves {0, 0, 0, true},
\* whatever the earlier cycles left.
C9_EmptyPayloadZero ==
    (cycle.n > 0 /\ Parsed /\ body.doc = <<>>) => currentStats = ZeroValid

C9_Witness ==
    /\ cycle.n > 0 /\ Parsed /\ body.doc = <<>>
    /\ cycle.stats.runCount > 0 /\ currentStats = ZeroValid

\* C12 as stated: no fetch cycle starts before the clock has been
\* synchronised.
C12_FetchOnlyAfterSync == cycle.n > 0 => cycle.synced

\* C13: a pass of loop() fetches only if WiFi is reported connected at that
\* pass, however long ago the last fetch was, and the startup fetch happens
\* only on the connected branch of setup().
C13_FetchOnlyWhenConnected ==
    /\ (iter > 0 /\ pass.fetched) => pass.wifi
    /\ cycle.by = "loop" => cycle.wifi
    /\ cycle.by = "setup" => ntpStarted
    /\ (pc = "loop" /\ ~ntpStarted /\ iter = 0) => cycle.n = 0

\* a pass without connectivity, long after the interval has elapsed
C13_Witness ==
    /\ iter > 0 /\ ~pass.wifi /\ ~pass.fetched
    /\ pass.elapsed >= Interval + Units(LOOP_DELAY)
    /\ cycle.n = 0

\* C14 as stated: the footer of the statistics layout shows the whole
\* minutes elapsed between the last successful fetch and the drawing.
C14_FooterSinceLastFetch ==
    (render.n > 0 /\ render.layout = "stats") =>
        screen[5] = "Updated: "
                    \o ToString(((cycle.done - lastFetchTime) % MillisWrap)
                                   \div Units(60000))
                    \o "m ago"

\* C15: every fetch cycle is followed at once by exactly one render, so
\* between passes of loop() the screen shows the layout that goes with valid.
C15_OneRenderPerCycle ==
    /\ render.n = cycle.n
    /\ render.cycle = cycle.n
    /\ (pc = "loop" /\ cycle.n > 0) =>
          screen = displayWeeklyStats(currentStats, cycle.done).texts

\* a second cycle whose render replaced the statistics by the error layout
C15_Witness ==
    /\ pc = "loop" /\ cycle.n >= 2 /\ render.n = cycle.n
    /\ cycle.stats.valid /\ ~currentStats.valid
    /\ screen = <<"Error loading", "data">>

\* C18: the due test agrees with the time that has really passed since
\* lastFetchTime was stamped, also when millis() has wrapped in between: a
\* pass fetches exactly when WiFi is up and at least the interval has really
\* elapsed, and at the start of every pass the test is true exactly when the
\* interval has really elapsed (real elapsed times below 2^32 ms).
C18_DueAcrossWrap ==
    /\ lastFetchTime = millis(cycle.stampAt)
    /\ (iter > 0 /\ pass.real < MillisWrap) =>
          (pass.fetched <=> (pass.wifi /\ pass.real >= Interval))
    /\ (pc = "loop" /\ uptime - cycle.stampAt < MillisWrap) =>
          (Due(uptime, lastFetchTime) <=> uptime - cycle.stampAt >= Interval)

\* a fetch succeeded before the wrap; the passes after the wrap found the
\* interval not yet elapsed, and the coming pass, the first one a full
\* interval after the stamp, finds the fetch due
C18_Witness ==
    /\ pc = "loop" /\ wifi
    /\ httpCode = HTTP_OK
    /\ cycle.stampAt < MillisWrap
    /\ uptime - Units(LOOP_DELAY) >= MillisWrap
    /\ millis(uptime) < lastFetchTime
    /\ pass.wifi /\ ~pass.fetched /\ pass.real < Interval
    /\ uptime - cycle.stampAt >= Interval
    /\ uptime - cycle.stampAt < Interval + Units(LOOP_DELAY)
    /\ RefreshCondition(wifi, uptime, lastFetchTime)

\* the longest time setup() can take
SetupLimit ==
    Units(BOOT_DELAY) + WIFI_ATTEMPTS * Units(WIFI_POLL_DELAY)
        + Units(CONNECTED_DELAY) + TIME_ATTEMPTS * Units(TIME_POLL_DELAY)

\* C19: setup() ends: both waits stop after 20 attempts whatever WiFi and
\* NTP do, setup is never stuck and is over (but for the fetch) within
\* SetupLimit; and when WiFi is not connected after the wait, the loop is
\* entered with no time sync started and no fetch made.
C19_StartupTerminates ==
    /\ attempts <= WIFI_ATTEMPTS
    /\ timeAttempts <= TIME_ATTEMPTS
    /\ pc # "loop" => (uptime <= SetupLimit /\ ENABLED Next)
    /\ (pc = "loop" /\ iter = 0 /\ ~ntpStarted) =>
          /\ cycle.n = 0 /\ render.n = 0
          /\ ~synced /\ ~wifi
          /\ screen = displayStatus("WiFi Failed!")
    /\ cycle.by = "setup" => (ntpStarted /\ cycle.wifi)

\* WiFi never connected: the loop is entered after exactly 20 attempts
C19_Witness ==
    /\ pc = "loop" /\ iter = 0
    /\ ~ntpStarted /\ ~wifi
    /\ uptime = Units(BOOT_DELAY) + WIFI_ATTEMPTS * Units(WIFI_POLL_DELAY)
    /\ cycle.n = 0
    /\ screen = displayStatus("WiFi Failed!")

(***************************************************************************)
(* SpecWeek: the week-start computation of fetchWeeklyStats applied to     *)
(* clock readings of every weekday, and to the small readings of a clock   *)
(* that was never set                                                      *)
(***************************************************************************)
MaxDay == 13                  \* days after Monday 2024-01-01 00:00:00 UTC

SecondsOfDay == {0, 1, 59, 60, 3599, 3600, 43261, 86399}

WeekInputs ==
    {1704067200 + d * SECONDS_PER_DAY + sec :
        d \in 0 .. MaxDay, sec \in SecondsOfDay}
    \cup {0, 6, 16, 345600, 950400}

InitWeek ==
    /\ pc = "week_in"
    /\ currentStats = [totalDistance |-> 0, totalTime |-> 0, runCount |-> 0,
                       valid |-> FALSE]
    /\ now \in WeekInputs
    /\ body = NoBody
    /\ Constructed

\* lines 108-115 of fetchWeeklyStats
week_compute ==
    /\ pc = "week_in"
    /\ pc' = "week_out"
    /\ weekStart' = weekStartOf(now, localtime_r(now))
    /\ UNCHANGED <<uptime, wifi, ntpStarted, synced, bootEpoch, attempts,
                   timeAttempts, currentStats, lastFetchTime, screen, now,
                   httpCode, body, cycle, render, pass, iter>>

SpecWeek == InitWeek /\ [][week_compute]_vars

\* C10: weekStart is the most recent Monday 00:00:00 at or before now.
C10_WeekStartIsLastMonday ==
    pc = "week_out" =>
        /\ weekStart <= now
        /\ now < weekStart + 7 * SECONDS_PER_DAY
        /\ localtime_r(weekStart) =
              [tm_wday |-> 1, tm_hour |-> 0, tm_min |-> 0, tm_sec |-> 0]
        /\ localtime_r(now) =
              [tm_wday |-> 1, tm_hour |-> 0, tm_min |-> 0, tm_sec |-> 0]
              => weekStart = now

\* a Sunday 23:59:59, the reading farthest from its Monday
C10_Witness ==
    /\ pc = "week_out"
    /\ localtime_r(now) =
          [tm_wday |-> 0, tm_hour |-> 23, tm_min |-> 59, tm_sec |-> 59]
    /\ now - weekStart = 7 * SECONDS_PER_DAY - 1

\* the Monday-to-Sunday window a reading lies in, counted from Monday
\* 1970-01-05 00:00:00 UTC (345600)
WeekIndex(t) == (t - 345600) \div (7 * SECONDS_PER_DAY)

\* C11: any two readings of the same Monday-to-Sunday window, each with its
\* own calendar fields, get the same week start.
C11_SameWeekSameStart ==
    pc = "week_out" =>
        \A t2 \in WeekInputs :
            WeekIndex(t2) = WeekIndex(now)
                => weekStartOf(t2, localtime_r(t2)) = weekStart

\* a Monday 00:00:00 and the Sunday 23:59:59 that closes its week
C11_Witness ==
    /\ pc = "week_out"
    /\ localtime_r(now) =
          [tm_wday |-> 1, tm_hour |-> 0, tm_min |-> 0, tm_sec |-> 0]
    /\ \E t2 \in WeekInputs :
          /\ t2 = now + 7 * SECONDS_PER_DAY - 1
          /\ WeekIndex(t2) = WeekIndex(now)
          /\ weekStartOf(t2, localtime_r(t2)) = weekStart

(***************************************************************************)
(* SpecAgg: parseActivities applied to payloads of up to MaxRecords        *)
(* activities, over stats an earlier cycle may have left                   *)
(***************************************************************************)
MaxRecords == 3

Run3k == [type |-> "Run", distance |-> 3000, moving_time |-> 900]
Run4k == [type |-> "Run", distance |-> 4000, moving_time |-> 1000]
RunFar == [type |-> "Run", distance |-> 16777216, moving_time |-> 7200]
RunStep == [type |-> "Run", distance |-> 1, moving_time |-> 1]
RunNoDistance == [type |-> "Run", moving_time |-> 600]
RunNoTime == [type |-> "Run", distance |-> 2000]
NoType == [distance |-> 1000, moving_time |-> 300]

AggActivities ==
    {Run5k, Ride20k, Run3k, Run4k, RunFar, RunStep, RunNoDistance, RunNoTime,
     NoType}

AggDocs ==
    UNION {[1 .. n -> AggActivities] : n \in 0 .. MaxRecords}

AggPrior ==
    {[totalDistance |-> 0, totalTime |-> 0, runCount |-> 0, valid |-> FALSE],
     [totalDistance |-> 0, totalTime |-> 0, runCount |-> 0, valid |-> TRUE],
     [totalDistance |-> 5000, totalTime |-> 1500, runCount |-> 1,
      valid |-> TRUE],
     [totalDistance |-> 5000, totalTime |-> 1500, runCount |-> 1,
      valid |-> FALSE]}

InitAgg ==
    /\ pc = "parse_in"
    /\ currentStats \in AggPrior
    /\ now = 0
    /\ body \in {Malformed} \cup {[error |-> 0, doc |-> doc] : doc \in AggDocs}
    /\ Constructed

\* parseActivities(payload) on its own
agg_parse ==
    /\ pc = "parse_in"
    /\ pc' = "parse_out"
    /\ currentStats' = parseActivities(currentStats, body)
    /\ cycle' = [cycle EXCEPT !.stats = currentStats]
    /\ UNCHANGED <<uptime, wifi, ntpStarted, synced, bootEpoch, attempts,
                   timeAttempts, lastFetchTime, screen, now, weekStart,
                   httpCode, body, render, pass, iter>>

SpecAgg == InitAgg /\ [][agg_parse]_vars

IsRun(activity) == "type" \in DOMAIN activity /\ activity["type"] = "Run"

\* the exact sum of a member over the "Run" records, absent members as 0
RECURSIVE ExactSum(_, _)
ExactSum(doc, key) ==
    IF doc = <<>> THEN 0
    ELSE (IF IsRun(Head(doc)) /\ key \in DOMAIN Head(doc)
          THEN Head(doc)[key] ELSE 0) + ExactSum(Tail(doc), key)

\* C8: after a successful parse runCount is the number of "Run" records,
\* totalTime the sum of their moving times, totalDistance the sum of their
\* distances, and valid is true, whatever the stats were before.
C8_AggregateIsExactSum ==
    (pc = "parse_out" /\ body.error = 0) =>
        /\ currentStats.runCount = Len(SelectSeq(body.doc, IsRun))
        /\ currentStats.totalTime = ExactSum(body.doc, "moving_time")
        /\ currentStats.totalDistance = ExactSum(body.doc, "distance")
        /\ currentStats.valid

\* the orders the records of a payload can come in
Orders(doc) ==
    {[i \in 1 .. Len(doc) |-> doc[p[i]]] :
        p \in {q \in [1 .. Len(doc) -> 1 .. Len(doc)] :
                 \A i, j \in 1 .. Len(doc) : q[i] = q[j] => i = j}}

\* C16 as stated: the aggregate of a payload is the aggregate of each of
\* its permutations.
C16_OrderIndependent ==
    (pc = "parse_out" /\ body.error = 0) =>
        \A doc \in Orders(body.doc) :
            parseActivities(cycle.stats, [error |-> 0, doc |-> doc])
                = currentStats

\* a payload with every absent distance and moving time written as 0 and
\* the records without a type left out
Completed(activity) ==
    [type |-> activity["type"],
     distance |-> IF "distance" \in DOMAIN activity
                  THEN activity["distance"] ELSE 0,
     moving_time |-> IF "moving_time" \in DOMAIN activity
                     THEN activity["moving_time"] ELSE 0]

RECURSIVE CompletedDoc(_)
CompletedDoc(doc) ==
    IF doc = <<>> THEN <<>>
    ELSE IF "type" \in DOMAIN Head(doc)
         THEN <<Completed(Head(doc))>> \o CompletedDoc(Tail(doc))
         ELSE CompletedDoc(Tail(doc))

\* C17: a record lacking a distance or a moving time counts with 0 for it, a
\* record lacking a type counts like a non-"Run" record, and the aggregation
\* goes on: valid ends true and every "Run" record is counted.
C17_MissingFieldsAsZero ==
    (pc = "parse_out" /\ body.error = 0) =>
        /\ currentStats.valid
        /\ currentStats.runCount = Len(SelectSeq(body.doc, IsRun))
        /\ currentStats.totalTime = ExactSum(body.doc, "moving_time")
        /\ currentStats =
              parseActivities(cycle.stats,
                              [error |-> 0, doc |-> CompletedDoc(body.doc)])

\* a run without a distance, a record without a type, then a complete run
C17_Witness ==
    /\ pc = "parse_out"
    /\ body = [error |-> 0, doc |-> <<RunNoDistance, NoType, Run3k>>]
    /\ currentStats = [totalDistance |-> 3000, totalTime |-> 1500,
                       runCount |-> 2, valid |-> TRUE]

====
